---- MODULE Spec2Model ----
(***************************************************************************)
(* Spice Source Hub: a marketplace front-end (React) over a hosted         *)
(* relational backend.  The model covers the route guard and role          *)
(* dispatch, the supplier dashboard, the vendor dashboard (catalog, quick  *)
(* order, group orders) and the cart (fetch, checkout).                    *)
(*                                                                         *)
(* Every asynchronous handler is split at its awaits: the request is a     *)
(* message in flight, the backend applies it in a later step, and other    *)
(* sessions may act in between.                                            *)
(***************************************************************************)
EXTENDS Integers, Sequences, FiniteSets, TLC

\* ------------------------------------------------------------------ values
NoUser == "nobody"
NoProfile == [user_id |-> NoUser, role |-> "none"]
Users == {"u1", "u2", "u3"}
\* roles a profiles row may carry; "admin" stands for any role that is neither
\* 'vendor' nor 'supplier', "missing" for a user without a profiles row
Roles == {"vendor", "supplier", "admin", "missing"}

VARIABLES
  \* --- authentication and routing (one browser session)
  user,            \* useAuth().user
  authLoading,     \* useAuth().loading
  routeView,       \* what ProtectedRoute renders
  profilesDB,      \* backend table profiles: user -> role
  profile,         \* useProfile state: profile
  profileLoading,  \* useProfile state: loading
  profileError,    \* useProfile state: error (set or not)
  profileReq,      \* fetchProfile request in flight: the user id it asks for
  dashboardView    \* what Dashboard renders

routeVars == <<user, authLoading, routeView, profilesDB, profile, profileLoading,
               profileError, profileReq, dashboardView>>

VARIABLES
  \* --- backend tables read and written by the vendor dashboards
  now,                 \* the clock, in days
  dbMaterials,         \* table materials: sequence of rows, id = index
  dbGroupOrders,       \* table group_orders: sequence of rows, id = index
  dbParticipants,      \* table group_order_participants: sequence of rows
  \* --- VendorDashboard state, one browser session per vendor
  materials,           \* useState materials: the cached catalog rows
  groupOrders,         \* useState groupOrders: the cached group-order rows
  vLoading,            \* useState loading
  fetchMat,            \* fetchMaterials requests in flight
  fetchGO,             \* fetchGroupOrders request in flight: its timestamp
  goFetchedAt,         \* history: timestamp of the fetch that filled groupOrders
  join,                \* joinGroupOrder call in flight
  toast,               \* title of the last toast shown
  isGroupOrderModalOpen,
  selectedMaterial,
  modalLoading,        \* GroupOrderModal useState loading
  createReq            \* createGroupOrder insert in flight

groupVars == <<now, dbMaterials, dbGroupOrders, dbParticipants, materials, groupOrders,
               vLoading, fetchMat, fetchGO, goFetchedAt, join, toast,
               isGroupOrderModalOpen, selectedMaterial, modalLoading, createReq>>

VARIABLES
  \* --- backend tables of the shop
  dbOrders,            \* table orders: sequence of rows, id = index
  dbCart,              \* table cart_items: sequence of rows
  dbLogs,              \* table order_summary_logs: sequence of rows
  \* --- SupplierDashboard state (one supplier session)
  sUser,               \* useAuth().user of the supplier session
  sMaterials,          \* useState materials
  sOrders,             \* useState orders
  sLoading,            \* useState loading
  isAddingMaterial,    \* useState isAddingMaterial: the dialog is open
  newMaterial,         \* useState newMaterial: the form
  sFetchMat,           \* fetchMaterials request in flight: the user id it filters by
  sFetchOrders,        \* fetchOrders request in flight: the user id it filters by
  addReq,              \* addMaterial insert in flight
  statusReq,           \* updateOrderStatus update in flight
  sToast               \* title of the last toast of the supplier session

supplierVars == <<sUser, sMaterials, sOrders, sLoading, isAddingMaterial, newMaterial,
                  sFetchMat, sFetchOrders, addReq, statusReq, sToast>>

VARIABLES
  \* --- Cart and quick order state (one vendor session)
  vUser,               \* useAuth().user of the vendor session
  vProfile,            \* VendorDashboard's useProfile().profile is loaded
  isCartOpen,          \* VendorDashboard useState isCartOpen
  cartItems,           \* Cart useState cartItems
  cartLoading,         \* Cart useState loading
  checkingOut,         \* Cart useState checkingOut
  fetchCart,           \* fetchCartItems request in flight: the user id it filters by
  checkoutReq,         \* checkout in flight: the inserts sent and their results
  lastRun,             \* history: how the last finished checkout run ended
  showOrderSummary,    \* VendorDashboard useState showOrderSummary
  orderSummary,        \* VendorDashboard useState orderSummary
  confirmReq,          \* confirmOrder insert in flight
  cToast               \* title of the last toast of the vendor session

cartVars == <<vUser, vProfile, isCartOpen, cartItems, cartLoading, checkingOut,
              fetchCart, checkoutReq, lastRun, showOrderSummary, orderSummary,
              confirmReq, cToast>>

shopTables == <<dbOrders, dbCart, dbLogs>>

VARIABLES
  \* --- calls of handlers of the vendor session
  calls,               \* history: callbacks the last createGroupOrder invoked, in order
  addCalls,            \* addToCart calls started, each with its position
  qtyReq               \* updateQuantity / removeFromCart requests in flight

callVars == <<calls, addCalls, qtyReq>>

vars == <<routeVars, groupVars, shopTables, supplierVars, cartVars, callVars>>

\* ------------------------------------------------ ProtectedRoute, Dashboard
ProtectedRouteNoUserCheck(u, loading) ==
  IF loading THEN "loading" ELSE "children"

\* ProtectedRoute: what it renders for useAuth()'s user and loading
ProtectedRoute(u, loading) ==
  IF loading THEN "loading"
  ELSE IF u = NoUser THEN "redirect"
  ELSE "children"

DashboardElseVendor(p, loading) ==
  IF loading THEN "loading"
  ELSE IF p = NoProfile THEN "setup"
  ELSE IF p.role = "supplier" THEN "supplier"
  ELSE "vendor"

\* Dashboard: what it renders for useProfile()'s profile and loading
Dashboard(p, loading) ==
  IF loading THEN "loading"
  ELSE IF p = NoProfile THEN "setup"
  ELSE IF p.role = "vendor" THEN "vendor"
  ELSE IF p.role = "supplier" THEN "supplier"
  ELSE "unknown"

\* The /dashboard route after the auth state became (u, loading): ProtectedRoute
\* renders; its children (Dashboard with its useProfile hook) are mounted when
\* it first renders them and unmounted, losing their state and their pending
\* response, when it stops rendering them.
Rerender(u, loading) ==
  LET view == ProtectedRoute(u, loading) IN
  /\ routeView' = view
  /\ IF view = "children" /\ routeView # "children"
     THEN \* mount: useState initial values, then the effect of useProfile
          /\ profile' = NoProfile
          /\ profileError' = FALSE
          /\ IF u = NoUser
             THEN profileLoading' = FALSE /\ profileReq' = NoUser
             ELSE profileLoading' = TRUE /\ profileReq' = u
          /\ dashboardView' = Dashboard(NoProfile, u # NoUser)
     ELSE IF view # "children"
     THEN /\ profile' = NoProfile
          /\ profileError' = FALSE
          /\ profileLoading' = TRUE
          /\ profileReq' = NoUser
          /\ dashboardView' = "unmounted"
     ELSE UNCHANGED <<profile, profileError, profileLoading, profileReq, dashboardView>>

\* The session is restored: loading ends with a user or with none.
AuthResolved(u) ==
  /\ authLoading
  /\ authLoading' = FALSE
  /\ user' = u
  /\ Rerender(u, FALSE)
  /\ UNCHANGED <<profilesDB, groupVars, shopTables, supplierVars, cartVars, callVars>>

\* Auth.handleSignIn: signIn succeeds (user set) or fails (nothing changes)
HandleSignIn(u, ok) ==
  /\ ~authLoading
  /\ user = NoUser
  /\ IF ok
     THEN /\ user' = u
          /\ Rerender(u, FALSE)
          /\ UNCHANGED <<authLoading, profilesDB>>
     ELSE UNCHANGED routeVars
  /\ UNCHANGED <<groupVars, shopTables, supplierVars, cartVars, callVars>>

\* Navbar.handleSignOut
HandleSignOut ==
  /\ routeView = "children"
  /\ user' = NoUser
  /\ Rerender(NoUser, authLoading)
  /\ UNCHANGED <<authLoading, profilesDB, groupVars, shopTables, supplierVars, cartVars, callVars>>

\* useProfile.fetchProfile: the response to the select ... maybeSingle()
FetchProfileDone(ok) ==
  /\ profileReq # NoUser
  /\ profileReq' = NoUser
  /\ IF ok
     THEN /\ profile' = IF profilesDB[profileReq] = "missing" THEN NoProfile
                        ELSE [user_id |-> profileReq, role |-> profilesDB[profileReq]]
          /\ UNCHANGED profileError
     ELSE /\ profileError' = TRUE
          /\ UNCHANGED profile
  /\ profileLoading' = FALSE
  /\ dashboardView' = Dashboard(profile', FALSE)
  /\ UNCHANGED <<user, authLoading, routeView, profilesDB, groupVars, shopTables, supplierVars, cartVars, callVars>>

\* ------------------------------------------------------------ vendor side
\* VendorDashboard sessions: "u1", "u2" and "u3" are signed in as themselves,
\* "anon" is a session with no signed-in user.
Vendors == {"u1", "u2", "u3", "anon"}
\* useAuth().user of a session
SessionUser(v) == IF v = "anon" THEN NoUser ELSE v
NoRow == [id |-> 0]
NoReq == [pc |-> "idle"]
NoFetch == -1
\* the quantity the Join Group Order button passes (the parameter's default)
Quantities == {1}
\* GroupOrderModal form: the default minimum quantity, and a small one a vendor
\* types so that the pooled quantity can reach it
DefaultMinQuantity == 100
MinQuantities == {2}
DefaultExpiryDays == 7
ExpiryDays == {1, DefaultExpiryDays}
\* bounds
MaxTime == 1
MaxGroupOrders == 1
MaxParticipantRows == 2

Rows(table) == {table[i] : i \in DOMAIN table}

\* a row of table materials
MaterialRow(id, supplier, price, stock) ==
  [id |-> id, name |-> "rice", description |-> "", price |-> price, stock |-> stock,
   unit |-> "kg", supplier_id |-> supplier]

\* GroupOrderModal.tsx:38-43, 86-93: the default discounted price, 90% of the price
DefaultDiscountedPrice(m) == (m.price * 9) \div 10

\* VendorDashboard.tsx:406-411: select * from materials where stock > 0
MaterialsQuery == {m \in Rows(dbMaterials) : m.stock > 0}

GroupOrdersQueryNoExpiry(t) ==
  {g \in Rows(dbGroupOrders) : g.status = "open"}

\* VendorDashboard.tsx:427-434: status = 'open' and expires_at > the request's timestamp
GroupOrdersQuery(t) ==
  {g \in Rows(dbGroupOrders) : g.status = "open" /\ g.expires_at > t}

\* groupOrders.find(go => go.id === groupOrderId)
FindGroupOrder(v, id) ==
  IF \E g \in groupOrders[v] : g.id = id
  THEN CHOOSE g \in groupOrders[v] : g.id = id
  ELSE NoRow

SeqContains(seq, x) == \E i \in DOMAIN seq : seq[i] = x

AlreadyJoinedNever(groupOrder, uid) == FALSE

\* VendorDashboard.tsx:567-568: groupOrder.participants.includes(user.id)
AlreadyJoined(groupOrder, uid) == SeqContains(groupOrder.participants, uid)

JoinUpdateFromStored(go, uid, q) ==
  [participants |-> Append(dbGroupOrders[go.id].participants, uid),
   total_quantity |-> dbGroupOrders[go.id].total_quantity + q]

JoinUpdateStoredTotal(go, uid, q) ==
  [participants |-> Append(go.participants, uid),
   total_quantity |-> dbGroupOrders[go.id].total_quantity + q]

\* VendorDashboard.tsx:588-595: the update's payload, computed from the cached row
JoinUpdate(go, uid, q) ==
  [participants |-> Append(go.participants, uid),
   total_quantity |-> go.total_quantity + q]

\* VendorDashboard.tsx:745-747: the unit price a group order's card shows
PriceShown(g) == g.current_price

\* fetchGroupOrders() up to its await: the request leaves with the current time.
\* One request per session is kept in flight: a request issued while another is
\* pending supersedes it (the earlier response arrives first and is overwritten).
IssueFetchGroupOrders(v) ==
  fetchGO' = [fetchGO EXCEPT ![v] = now]

\* fetchMaterials(); fetchGroupOrders(): both requests leave
IssueFetches(v) ==
  /\ fetchMat' = [fetchMat EXCEPT ![v] = TRUE]
  /\ IssueFetchGroupOrders(v)

\* VendorDashboard.tsx:831-834: Cart's onRefresh
OnRefresh(v) ==
  /\ IssueFetches(v)
  /\ UNCHANGED <<now, dbMaterials, dbGroupOrders, dbParticipants, materials, groupOrders,
                 vLoading, goFetchedAt, join, toast, isGroupOrderModalOpen,
                 selectedMaterial, modalLoading, createReq>>
  /\ UNCHANGED <<routeVars, shopTables, supplierVars, cartVars, callVars>>

\* VendorDashboard.tsx:406-423 fetchMaterials, from the response on
FetchMaterialsDone(v, ok) ==
  /\ fetchMat[v]
  /\ fetchMat' = [fetchMat EXCEPT ![v] = FALSE]
  /\ IF ok
     THEN materials' = [materials EXCEPT ![v] = MaterialsQuery] /\ UNCHANGED toast
     ELSE toast' = [toast EXCEPT ![v] = "Error"] /\ UNCHANGED materials
  /\ UNCHANGED <<now, dbMaterials, dbGroupOrders, dbParticipants, groupOrders, vLoading,
                 fetchGO, goFetchedAt, join, isGroupOrderModalOpen,
                 selectedMaterial, modalLoading, createReq>>
  /\ UNCHANGED <<routeVars, shopTables, supplierVars, cartVars, callVars>>

\* VendorDashboard.tsx:425-443 fetchGroupOrders, from the response on
FetchGroupOrdersDone(v, t, ok) ==
  /\ t = fetchGO[v]
  /\ t # NoFetch
  /\ fetchGO' = [fetchGO EXCEPT ![v] = NoFetch]
  /\ IF ok
     THEN /\ groupOrders' = [groupOrders EXCEPT ![v] = GroupOrdersQuery(t)]
          /\ goFetchedAt' = [goFetchedAt EXCEPT ![v] = t]
     ELSE UNCHANGED <<groupOrders, goFetchedAt>>
  /\ vLoading' = [vLoading EXCEPT ![v] = FALSE]
  /\ UNCHANGED <<now, dbMaterials, dbGroupOrders, dbParticipants, materials, fetchMat,
                 join, toast, isGroupOrderModalOpen, selectedMaterial,
                 modalLoading, createReq>>
  /\ UNCHANGED <<routeVars, shopTables, supplierVars, cartVars, callVars>>

\* VendorDashboard.tsx:615-618 openGroupOrderModal
OpenGroupOrderModal(v, m) ==
  /\ ~vLoading[v]
  /\ m \in materials[v]
  /\ selectedMaterial' = [selectedMaterial EXCEPT ![v] = m]
  /\ isGroupOrderModalOpen' = [isGroupOrderModalOpen EXCEPT ![v] = TRUE]
  /\ UNCHANGED <<now, dbMaterials, dbGroupOrders, dbParticipants, materials, groupOrders,
                 vLoading, fetchMat, fetchGO, goFetchedAt, join, toast,
                 modalLoading, createReq>>
  /\ UNCHANGED <<routeVars, shopTables, supplierVars, cartVars, callVars>>

\* GroupOrderModal.tsx:199-201: Cancel (onClose)
CloseGroupOrderModal(v) ==
  /\ isGroupOrderModalOpen[v]
  /\ isGroupOrderModalOpen' = [isGroupOrderModalOpen EXCEPT ![v] = FALSE]
  /\ UNCHANGED <<now, dbMaterials, dbGroupOrders, dbParticipants, materials, groupOrders,
                 vLoading, fetchMat, fetchGO, goFetchedAt, join, toast,
                 selectedMaterial, modalLoading, createReq>>
  /\ UNCHANGED <<routeVars, shopTables, supplierVars, cartVars, callVars>>

\* GroupOrderModal.tsx:45-62 createGroupOrder up to its await: the form's values
\* (minQuantity, discountedPrice, expiryDays) are what the vendor left in the form
GroupOrderRowNoExpiry(uid, material, form, t) ==
  [material_id |-> material.id, min_quantity |-> form.minQuantity,
   current_price |-> form.discountedPrice, expires_at |-> t,
   participants |-> <<uid>>, total_quantity |-> 1]

\* GroupOrderModal.tsx:50-62: the row createGroupOrder inserts at time t
GroupOrderRow(uid, material, form, t) ==
  [material_id |-> material.id, min_quantity |-> form.minQuantity,
   current_price |-> form.discountedPrice, expires_at |-> t + form.expiryDays,
   participants |-> <<uid>>, total_quantity |-> 1]

\* The page offers the button (lines 202-208) in the open modal of a session
\* with a selected material; the guard of line 46 is reached by a session
\* without a user and by calling the handler while no material is selected.
CreateGroupOrder(v, minQuantity, discountedPrice, expiryDays) ==
  /\ ~modalLoading[v]
  /\ IF SessionUser(v) = NoUser \/ selectedMaterial[v] = NoRow
     THEN UNCHANGED <<modalLoading, createReq, calls>>
     ELSE /\ isGroupOrderModalOpen[v]
          /\ Len(dbGroupOrders) + Cardinality({w \in Vendors : createReq[w] # NoReq})
               < MaxGroupOrders
          /\ modalLoading' = [modalLoading EXCEPT ![v] = TRUE]
          /\ calls' = [calls EXCEPT ![v] = << >>]
          /\ LET formData == [minQuantity |-> minQuantity,
                               discountedPrice |-> discountedPrice,
                               expiryDays |-> expiryDays]
             IN createReq' = [createReq EXCEPT ![v] =
                  [pc |-> "insert", formData |-> formData, at |-> now,
                   row |-> GroupOrderRow(SessionUser(v), selectedMaterial[v], formData, now)]]
  /\ UNCHANGED <<now, dbMaterials, dbGroupOrders, dbParticipants, materials, groupOrders,
                 vLoading, fetchMat, fetchGO, goFetchedAt, join, toast,
                 isGroupOrderModalOpen, selectedMaterial>>
  /\ UNCHANGED <<addCalls, qtyReq>>
  /\ UNCHANGED <<routeVars, shopTables, supplierVars, cartVars>>

CreateSuccessCallsSwapped == <<"onSuccess", "onClose">>

\* GroupOrderModal.tsx:71-72: onClose(); onSuccess?.()
CreateSuccessCalls == <<"onClose", "onSuccess">>

\* The row the backend stores for an insert: id and the column default status 'open'
StoredGroupOrder(row, id) ==
  [id |-> id, material_id |-> row.material_id, min_quantity |-> row.min_quantity,
   current_price |-> row.current_price, expires_at |-> row.expires_at,
   participants |-> row.participants, total_quantity |-> row.total_quantity,
   status |-> "open"]

\* GroupOrderModal.tsx:53-83 createGroupOrder from the insert's response on;
\* onSuccess is VendorDashboard.tsx:842-845
CreateGroupOrderDone(v, ok) ==
  /\ createReq[v] # NoReq
  /\ createReq' = [createReq EXCEPT ![v] = NoReq]
  /\ IF ok
     THEN /\ dbGroupOrders' = Append(dbGroupOrders,
                                StoredGroupOrder(createReq[v].row, Len(dbGroupOrders) + 1))
          /\ toast' = [toast EXCEPT ![v] = "Group order created!"]
          /\ calls' = [calls EXCEPT ![v] = CreateSuccessCalls]
          /\ isGroupOrderModalOpen' = [isGroupOrderModalOpen EXCEPT ![v] = FALSE]
          /\ IssueFetchGroupOrders(v)
     ELSE /\ toast' = [toast EXCEPT ![v] = "Error"]
          /\ UNCHANGED <<dbGroupOrders, isGroupOrderModalOpen, fetchGO, calls>>
  /\ modalLoading' = [modalLoading EXCEPT ![v] = FALSE]
  /\ UNCHANGED <<now, dbMaterials, dbParticipants, materials, groupOrders, vLoading,
                 fetchMat, goFetchedAt, join, selectedMaterial>>
  /\ UNCHANGED <<addCalls, qtyReq>>
  /\ UNCHANGED <<routeVars, shopTables, supplierVars, cartVars>>

\* VendorDashboard.tsx:560-584 joinGroupOrder up to its first await
JoinGroupOrder(v, groupOrderId, quantity) ==
  /\ ~vLoading[v]
  /\ join[v] = NoReq
  /\ LET groupOrder == FindGroupOrder(v, groupOrderId) IN
     /\ groupOrder # NoRow
     /\ IF SessionUser(v) = NoUser
        THEN UNCHANGED <<join, toast>>
        ELSE IF AlreadyJoined(groupOrder, SessionUser(v))
        THEN /\ toast' = [toast EXCEPT ![v] = "Already joined"]
             /\ UNCHANGED join
        ELSE /\ Len(dbParticipants)
                  + Cardinality({w \in Vendors : join[w].pc = "insert"}) < MaxParticipantRows
             /\ join' = [join EXCEPT ![v] =
                  [pc |-> "insert", groupOrder |-> groupOrder, quantity |-> quantity]]
             /\ UNCHANGED toast
  /\ UNCHANGED <<now, dbMaterials, dbGroupOrders, dbParticipants, materials, groupOrders,
                 vLoading, fetchMat, fetchGO, goFetchedAt,
                 isGroupOrderModalOpen, selectedMaterial, modalLoading, createReq>>
  /\ UNCHANGED <<routeVars, shopTables, supplierVars, cartVars, callVars>>

\* VendorDashboard.tsx:577-586: the insert into group_order_participants answers
JoinInsertDone(v, ok) ==
  /\ join[v].pc = "insert"
  /\ IF ok
     THEN /\ dbParticipants' = Append(dbParticipants,
                                 [group_order_id |-> join[v].groupOrder.id,
                                  vendor_id |-> SessionUser(v),
                                  quantity |-> join[v].quantity])
          /\ join' = [join EXCEPT ![v].pc = "update"]
          /\ UNCHANGED toast
     ELSE /\ toast' = [toast EXCEPT ![v] = "Error"]
          /\ join' = [join EXCEPT ![v] = NoReq]
          /\ UNCHANGED dbParticipants
  /\ UNCHANGED <<now, dbMaterials, dbGroupOrders, materials, groupOrders, vLoading,
                 fetchMat, fetchGO, goFetchedAt, isGroupOrderModalOpen,
                 selectedMaterial, modalLoading, createReq>>
  /\ UNCHANGED <<routeVars, shopTables, supplierVars, cartVars, callVars>>

\* VendorDashboard.tsx:588-612: the update of group_orders answers
JoinUpdateDone(v, ok) ==
  /\ join[v].pc = "update"
  /\ join' = [join EXCEPT ![v] = NoReq]
  /\ LET go == join[v].groupOrder
         upd == JoinUpdate(go, SessionUser(v), join[v].quantity) IN
     IF ok
     THEN /\ dbGroupOrders' = [dbGroupOrders EXCEPT
                 ![go.id].participants = upd.participants,
                 ![go.id].total_quantity = upd.total_quantity]
          /\ toast' = [toast EXCEPT ![v] = "Joined group order!"]
          /\ IssueFetchGroupOrders(v)
     ELSE /\ toast' = [toast EXCEPT ![v] = "Error"]
          /\ UNCHANGED <<dbGroupOrders, fetchGO>>
  /\ UNCHANGED <<now, dbMaterials, dbParticipants, materials, groupOrders, vLoading,
                 fetchMat, goFetchedAt, isGroupOrderModalOpen, selectedMaterial,
                 modalLoading, createReq>>
  /\ UNCHANGED <<routeVars, shopTables, supplierVars, cartVars, callVars>>

\* a day passes
Tick ==
  /\ now < MaxTime
  /\ now' = now + 1
  /\ UNCHANGED <<dbMaterials, dbGroupOrders, dbParticipants, materials, groupOrders,
                 vLoading, fetchMat, fetchGO, goFetchedAt, join, toast,
                 isGroupOrderModalOpen, selectedMaterial, modalLoading, createReq>>
  /\ UNCHANGED <<routeVars, shopTables, supplierVars, cartVars, callVars>>

\* ---------------------------------------------------------- supplier side
Suppliers == {"s1", "s2"}
MaxMaterials == 3

\* SupplierDashboard.tsx:51-57 and 127-133: the form's defaults
NewMaterialDefaults ==
  [name |-> "", description |-> "", price |-> 0, stock |-> 0, unit |-> "kg"]

\* values a supplier leaves in the form
MaterialForms ==
  {[name |-> n, description |-> "", price |-> p, stock |-> k, unit |-> "kg"] :
     n \in {"", "rice"}, p \in {0, 30}, k \in {0, 5}}

Reverse(seq) == [i \in 1..Len(seq) |-> seq[Len(seq) + 1 - i]]

SupplierMaterialsQueryAll(uid) == Rows(dbMaterials)

\* SupplierDashboard.tsx:70-73: select * from materials where supplier_id = user.id
SupplierMaterialsQuery(uid) == {m \in Rows(dbMaterials) : m.supplier_id = uid}

\* SupplierDashboard.tsx:91-98: orders joined with their material, where
\* supplier_id = user.id, newest first
SupplierOrdersQuery(uid) ==
  LET mine(o) == o.supplier_id = uid
      joined == [i \in DOMAIN dbOrders |->
                   [id |-> dbOrders[i].id, vendor_id |-> dbOrders[i].vendor_id,
                    supplier_id |-> dbOrders[i].supplier_id,
                    material_id |-> dbOrders[i].material_id,
                    quantity |-> dbOrders[i].quantity,
                    total_price |-> dbOrders[i].total_price,
                    type |-> dbOrders[i].type, status |-> dbOrders[i].status,
                    materials |-> dbMaterials[dbOrders[i].material_id]]]
  IN Reverse(SelectSeq(joined, mine))

AddMaterialPayloadNoOwner(form, uid) ==
  [name |-> form.name, description |-> form.description, price |-> form.price,
   stock |-> form.stock, unit |-> form.unit, supplier_id |-> NoUser]

\* SupplierDashboard.tsx:115-118: { ...newMaterial, supplier_id: user.id }
AddMaterialPayload(form, uid) ==
  [name |-> form.name, description |-> form.description, price |-> form.price,
   stock |-> form.stock, unit |-> form.unit, supplier_id |-> uid]

\* the row the backend stores for an inserted material
StoredMaterial(row, id) ==
  [id |-> id, name |-> row.name, description |-> row.description, price |-> row.price,
   stock |-> row.stock, unit |-> row.unit, supplier_id |-> row.supplier_id]

\* SupplierDashboard.tsx:239-300: the form's onChange handlers
SetNewMaterial(form) ==
  /\ ~sLoading /\ isAddingMaterial
  /\ newMaterial' = form
  /\ UNCHANGED <<sUser, sMaterials, sOrders, sLoading, isAddingMaterial, sFetchMat,
                 sFetchOrders, addReq, statusReq, sToast>>
  /\ UNCHANGED <<routeVars, groupVars, shopTables, cartVars, callVars>>

\* SupplierDashboard.tsx:222: the dialog is opened or closed
SetIsAddingMaterial(open) ==
  /\ ~sLoading
  /\ isAddingMaterial # open
  /\ isAddingMaterial' = open
  /\ UNCHANGED <<sUser, sMaterials, sOrders, sLoading, newMaterial, sFetchMat,
                 sFetchOrders, addReq, statusReq, sToast>>
  /\ UNCHANGED <<routeVars, groupVars, shopTables, cartVars, callVars>>

\* SupplierDashboard.tsx:109-118 addMaterial up to its await; the page offers
\* the button (line 300) in the open dialog of a loaded dashboard, the guard
\* for a missing user is reached by calling the handler
AddMaterial ==
  /\ addReq = NoReq
  /\ sUser = NoUser \/ (~sLoading /\ isAddingMaterial)
  /\ IF sUser = NoUser
     THEN UNCHANGED addReq
     ELSE /\ Len(dbMaterials) < MaxMaterials
          /\ addReq' = [pc |-> "insert", user |-> sUser,
                        row |-> AddMaterialPayload(newMaterial, sUser)]
  /\ UNCHANGED <<sUser, sMaterials, sOrders, sLoading, isAddingMaterial, newMaterial,
                 sFetchMat, sFetchOrders, statusReq, sToast>>
  /\ UNCHANGED <<routeVars, groupVars, shopTables, cartVars, callVars>>

\* SupplierDashboard.tsx:120-143 addMaterial from the insert's response on
AddMaterialDone(ok) ==
  /\ addReq # NoReq
  /\ addReq' = NoReq
  /\ IF ok
     THEN /\ dbMaterials' = Append(dbMaterials,
                              StoredMaterial(addReq.row, Len(dbMaterials) + 1))
          /\ sToast' = "Material added!"
          /\ newMaterial' = NewMaterialDefaults
          /\ isAddingMaterial' = FALSE
          /\ sFetchMat' = addReq.user
     ELSE /\ sToast' = "Error"
          /\ UNCHANGED <<dbMaterials, newMaterial, isAddingMaterial, sFetchMat>>
  /\ UNCHANGED <<sUser, sMaterials, sOrders, sLoading, sFetchOrders, statusReq>>
  /\ UNCHANGED <<now, dbGroupOrders, dbParticipants, materials, groupOrders, vLoading,
                 fetchMat, fetchGO, goFetchedAt, join, toast, isGroupOrderModalOpen,
                 selectedMaterial, modalLoading, createReq>>
  /\ UNCHANGED <<routeVars, shopTables, cartVars, callVars>>

\* SupplierDashboard.tsx:66-85 fetchMaterials, from the response on
SupplierFetchMaterialsDone(ok) ==
  /\ sFetchMat # NoUser
  /\ sFetchMat' = NoUser
  /\ IF ok
     THEN sMaterials' = SupplierMaterialsQuery(sFetchMat) /\ UNCHANGED sToast
     ELSE sToast' = "Error" /\ UNCHANGED sMaterials
  /\ UNCHANGED <<sUser, sOrders, sLoading, isAddingMaterial, newMaterial, sFetchOrders,
                 addReq, statusReq>>
  /\ UNCHANGED <<routeVars, groupVars, shopTables, cartVars, callVars>>

\* SupplierDashboard.tsx:87-107 fetchOrders, from the response on
SupplierFetchOrdersDone(ok) ==
  /\ sFetchOrders # NoUser
  /\ sFetchOrders' = NoUser
  /\ sOrders' = IF ok THEN SupplierOrdersQuery(sFetchOrders) ELSE sOrders
  /\ sLoading' = FALSE
  /\ UNCHANGED <<sUser, sMaterials, isAddingMaterial, newMaterial, sFetchMat, addReq,
                 statusReq, sToast>>
  /\ UNCHANGED <<routeVars, groupVars, shopTables, cartVars, callVars>>

\* SupplierDashboard.tsx:146-151 updateOrderStatus up to its await; the buttons
\* (lines 395-420) offer confirmed or cancelled for a pending order, delivered
\* for a confirmed one
UpdateOrderStatus(orderId, status) ==
  /\ ~sLoading
  /\ statusReq = NoReq
  /\ \E i \in DOMAIN sOrders :
       /\ sOrders[i].id = orderId
       /\ \/ sOrders[i].status = "pending" /\ status \in {"confirmed", "cancelled"}
          \/ sOrders[i].status = "confirmed" /\ status = "delivered"
  /\ statusReq' = [pc |-> "update", id |-> orderId, status |-> status]
  /\ UNCHANGED <<sUser, sMaterials, sOrders, sLoading, isAddingMaterial, newMaterial,
                 sFetchMat, sFetchOrders, addReq, sToast>>
  /\ UNCHANGED <<routeVars, groupVars, shopTables, cartVars, callVars>>

\* SupplierDashboard.tsx:153-168 updateOrderStatus from the update's response on
UpdateOrderStatusDone(ok) ==
  /\ statusReq # NoReq
  /\ statusReq' = NoReq
  /\ IF ok
     THEN /\ dbOrders' = [dbOrders EXCEPT ![statusReq.id].status = statusReq.status]
          /\ sToast' = "Order updated!"
          /\ sFetchOrders' = IF sUser = NoUser THEN sFetchOrders ELSE sUser
     ELSE /\ sToast' = "Error"
          /\ UNCHANGED <<dbOrders, sFetchOrders>>
  /\ UNCHANGED <<sUser, sMaterials, sOrders, sLoading, isAddingMaterial, newMaterial,
                 sFetchMat, addReq>>
  /\ UNCHANGED <<dbCart, dbLogs>>
  /\ UNCHANGED <<routeVars, groupVars, cartVars, callVars>>

\* ------------------------------------------------- cart and quick order
MaxOrders == 3

NoRun == [outcome |-> "none"]

\* the row the backend stores for an inserted order
StoredOrder(row, id) ==
  [id |-> id, vendor_id |-> row.vendor_id, supplier_id |-> row.supplier_id,
   material_id |-> row.material_id, quantity |-> row.quantity,
   total_price |-> row.total_price, type |-> row.type, status |-> "pending"]

RECURSIVE StoreOrders(_, _)
StoreOrders(orders, rows) ==
  IF rows = <<>> THEN orders
  ELSE StoreOrders(Append(orders, StoredOrder(Head(rows), Len(orders) + 1)), Tail(rows))

\* does the table hold the row already (id and status apart)
HasOrder(orders, row) ==
  \E i \in DOMAIN orders : StoredOrder(row, orders[i].id) = [orders[i] EXCEPT !.status = "pending"]

InsertOrdersOnce(orders, rows) ==
  LET fresh(r) == ~HasOrder(orders, r) IN StoreOrders(orders, SelectSeq(rows, fresh))

\* supabase.from('orders').insert(rows): every row is appended
InsertOrders(orders, rows) == StoreOrders(orders, rows)

\* types.ts:499-512: cart_items joined with their material, where vendor_id = user.id
CartQuery(uid) ==
  LET mine(c) == c.vendor_id = uid
      joined == [i \in DOMAIN dbCart |->
                   [id |-> dbCart[i].id, vendor_id |-> dbCart[i].vendor_id,
                    material_id |-> dbCart[i].material_id,
                    quantity |-> dbCart[i].quantity,
                    materials |-> dbMaterials[dbCart[i].material_id]]]
  IN SelectSeq(joined, mine)

OrderRowUnitPrice(uid, supplierId, item) ==
  [vendor_id |-> uid, supplier_id |-> supplierId, material_id |-> item.material_id,
   quantity |-> item.quantity, total_price |-> item.materials.price, type |-> "individual"]

\* types.ts:601-608: the order row checkout builds for one cart item
OrderRow(uid, supplierId, item) ==
  [vendor_id |-> uid, supplier_id |-> supplierId, material_id |-> item.material_id,
   quantity |-> item.quantity, total_price |-> item.materials.price * item.quantity,
   type |-> "individual"]

\* types.ts:590-597: the suppliers of the cart's items
SuppliersOf(items) == {items[i].materials.supplier_id : i \in DOMAIN items}

\* types.ts:600-611: the rows of the insert sent for one supplier
CheckoutOrders(items, supplierId, uid) ==
  LET ofSupplier(it) == it.materials.supplier_id = supplierId
      group == SelectSeq(items, ofSupplier)
  IN [k \in DOMAIN group |-> OrderRow(uid, supplierId, group[k])]

RECURSIVE SumLen(_, _)
SumLen(f, S) ==
  IF S = {} THEN 0
  ELSE LET s == CHOOSE x \in S : TRUE IN Len(f[s]) + SumLen(f, S \ {s})

\* rows of inserts this session has sent and not yet seen answered
PendingOrderRows ==
  (IF checkoutReq.pc = "inserts" THEN SumLen(checkoutReq.sent, checkoutReq.pending) ELSE 0)
  + (IF confirmReq.pc = "insert" THEN 1 ELSE 0)

\* VendorDashboard.tsx:646-648 with the effect of types.ts:488-492 and the
\* start of fetchCartItems (494-497)
OpenCart ==
  /\ ~isCartOpen /\ ~showOrderSummary
  /\ isCartOpen' = TRUE
  /\ IF vUser = NoUser
     THEN UNCHANGED <<cartLoading, fetchCart>>
     ELSE cartLoading' = TRUE /\ fetchCart' = vUser
  /\ UNCHANGED <<vUser, vProfile, cartItems, checkingOut, checkoutReq, lastRun,
                 showOrderSummary, orderSummary, confirmReq, cToast>>
  /\ UNCHANGED <<routeVars, groupVars, shopTables, supplierVars, callVars>>

\* VendorDashboard.tsx:830: onClose
CloseCart ==
  /\ isCartOpen
  /\ isCartOpen' = FALSE
  /\ UNCHANGED <<vUser, vProfile, cartItems, cartLoading, checkingOut, fetchCart,
                 checkoutReq, lastRun, showOrderSummary, orderSummary, confirmReq,
                 cToast>>
  /\ UNCHANGED <<routeVars, groupVars, shopTables, supplierVars, callVars>>

\* types.ts:498-525 fetchCartItems, from the response on
FetchCartItemsDone(ok) ==
  /\ fetchCart # NoUser
  /\ fetchCart' = NoUser
  /\ IF ok
     THEN cartItems' = CartQuery(fetchCart) /\ UNCHANGED cToast
     ELSE cToast' = "Error" /\ UNCHANGED cartItems
  /\ cartLoading' = FALSE
  /\ UNCHANGED <<vUser, vProfile, isCartOpen, checkingOut, checkoutReq, lastRun,
                 showOrderSummary, orderSummary, confirmReq>>
  /\ UNCHANGED <<routeVars, groupVars, shopTables, supplierVars, callVars>>

\* types.ts:584-612 checkout up to Promise.all: one insert per supplier leaves
Checkout ==
  /\ isCartOpen /\ ~checkingOut /\ checkoutReq = NoReq
  /\ cartItems # <<>>
  /\ IF vUser = NoUser
     THEN UNCHANGED <<checkingOut, checkoutReq>>
     ELSE /\ Len(dbOrders) + PendingOrderRows + Len(cartItems) <= MaxOrders
          /\ checkingOut' = TRUE
          /\ checkoutReq' =
               [pc |-> "inserts", user |-> vUser, items |-> cartItems,
                sent |-> [s \in SuppliersOf(cartItems) |->
                            CheckoutOrders(cartItems, s, vUser)],
                pending |-> SuppliersOf(cartItems), ok |-> {}]
  /\ UNCHANGED <<vUser, vProfile, isCartOpen, cartItems, cartLoading, fetchCart,
                 lastRun, showOrderSummary, orderSummary, confirmReq, cToast>>
  /\ UNCHANGED <<routeVars, groupVars, shopTables, supplierVars, callVars>>

\* types.ts:613-620 and 649-658: one insert is answered; with the last answer
\* Promise.all resolves and checkout goes on: any error ends the run in the
\* catch block, otherwise the log insert leaves
CheckoutInsertDone(s, ok) ==
  /\ checkoutReq.pc = "inserts"
  /\ s \in checkoutReq.pending
  /\ dbOrders' = IF ok THEN InsertOrders(dbOrders, checkoutReq.sent[s]) ELSE dbOrders
  /\ LET pending == checkoutReq.pending \ {s}
         oks == IF ok THEN checkoutReq.ok \cup {s} ELSE checkoutReq.ok
         all == DOMAIN checkoutReq.sent
     IN IF pending # {}
        THEN /\ checkoutReq' = [checkoutReq EXCEPT !.pending = pending, !.ok = oks]
             /\ UNCHANGED <<cToast, checkingOut, lastRun>>
        ELSE IF oks # all
        THEN /\ checkoutReq' = NoReq
             /\ cToast' = "Checkout failed"
             /\ checkingOut' = FALSE
             /\ lastRun' = [outcome |-> "failed", items |-> checkoutReq.items, ok |-> oks]
        ELSE /\ checkoutReq' = [checkoutReq EXCEPT !.pc = "log", !.pending = {}, !.ok = oks]
             /\ UNCHANGED <<cToast, checkingOut, lastRun>>
  /\ UNCHANGED <<dbCart, dbLogs, vUser, vProfile, isCartOpen, cartItems, cartLoading,
                 fetchCart, showOrderSummary, orderSummary, confirmReq>>
  /\ UNCHANGED <<routeVars, groupVars, supplierVars, callVars>>

\* types.ts:627-633: the order_summary_logs insert is answered (result unread);
\* the cart delete leaves
CheckoutLogDone(ok) ==
  /\ checkoutReq.pc = "log"
  /\ dbLogs' = IF ok THEN Append(dbLogs, [vendor_id |-> checkoutReq.user, kind |-> "checkout"])
               ELSE dbLogs
  /\ checkoutReq' = [checkoutReq EXCEPT !.pc = "clear"]
  /\ UNCHANGED <<dbOrders, dbCart, vUser, vProfile, isCartOpen, cartItems, cartLoading,
                 checkingOut, fetchCart, lastRun, showOrderSummary, orderSummary,
                 confirmReq, cToast>>
  /\ UNCHANGED <<routeVars, groupVars, supplierVars, callVars>>

\* types.ts:636-648 and 656-658: the cart delete is answered (result unread);
\* the rest of the success path
CheckoutClearDone(ok) ==
  /\ checkoutReq.pc = "clear"
  /\ LET notMine(c) == c.vendor_id # checkoutReq.user
     IN dbCart' = IF ok THEN SelectSeq(dbCart, notMine) ELSE dbCart
  /\ cartItems' = <<>>
  /\ cToast' = "Checkout successful!"
  /\ isCartOpen' = FALSE
  /\ IssueFetches(checkoutReq.user)
  /\ checkingOut' = FALSE
  /\ lastRun' = [outcome |-> "ok"]
  /\ checkoutReq' = NoReq
  /\ UNCHANGED <<now, dbMaterials, dbGroupOrders, dbParticipants, materials,
                 groupOrders, vLoading, goFetchedAt, join, toast, isGroupOrderModalOpen,
                 selectedMaterial, modalLoading, createReq, dbOrders, dbLogs, vUser,
                 vProfile, cartLoading, fetchCart, showOrderSummary, orderSummary,
                 confirmReq>>
  /\ UNCHANGED <<routeVars, supplierVars, callVars>>

\* VendorDashboard's useProfile (types.ts:411-448) delivers the profile
VendorProfileLoaded ==
  /\ vUser # NoUser /\ ~vProfile
  /\ vProfile' = TRUE
  /\ UNCHANGED <<vUser, isCartOpen, cartItems, cartLoading, checkingOut, fetchCart,
                 checkoutReq, lastRun, showOrderSummary, orderSummary, confirmReq,
                 cToast>>
  /\ UNCHANGED <<routeVars, groupVars, shopTables, supplierVars, callVars>>

\* VendorDashboard.tsx:500-506: the text of the order summary
OrderSummaryText(material, quantity) ==
  [material |-> material.id, quantity |-> quantity, price |-> material.price,
   total |-> material.price * quantity, supplier |-> material.supplier_id]

\* VendorDashboard.tsx:515-522: the row confirmOrder inserts
IndividualOrder(uid, material, quantity) ==
  [vendor_id |-> uid, supplier_id |-> material.supplier_id, material_id |-> material.id,
   quantity |-> quantity, total_price |-> material.price * quantity,
   type |-> "individual"]

QuickOrderSendsInsert(uid, material) ==
  [pc |-> "insert", user |-> uid, row |-> IndividualOrder(uid, material, 1)]

\* VendorDashboard.tsx:493-510, 542: what a call of placeIndividualOrder that
\* is not followed by confirmOrder() sends to the backend: nothing
QuickOrderSends(uid, material) == confirmReq

\* VendorDashboard.tsx:710-719 with placeIndividualOrder (493-510): Quick Order
QuickOrder(m) ==
  /\ vUser # NoUser
  /\ ~vLoading[vUser] /\ ~isCartOpen /\ ~showOrderSummary
  /\ m \in materials[vUser]
  /\ selectedMaterial' = [selectedMaterial EXCEPT ![vUser] = m]
  /\ IF vProfile
     THEN /\ orderSummary' = OrderSummaryText(m, 1)
          /\ showOrderSummary' = TRUE
          /\ confirmReq' = QuickOrderSends(vUser, m)
          /\ confirmReq'.pc = "insert" =>
               Len(dbOrders) + PendingOrderRows + 1 <= MaxOrders
     ELSE UNCHANGED <<orderSummary, showOrderSummary, confirmReq>>
  /\ UNCHANGED <<now, dbMaterials, dbGroupOrders, dbParticipants, materials,
                 groupOrders, vLoading, fetchMat, fetchGO, goFetchedAt, join, toast,
                 isGroupOrderModalOpen, modalLoading, createReq, vUser, vProfile,
                 isCartOpen, cartItems, cartLoading, checkingOut, fetchCart,
                 checkoutReq, lastRun, cToast>>
  /\ UNCHANGED <<routeVars, shopTables, supplierVars, callVars>>

\* VendorDashboard.tsx:861-863 and 849: Cancel, or the dialog is dismissed
CancelOrderSummary ==
  /\ showOrderSummary
  /\ showOrderSummary' = FALSE
  /\ UNCHANGED <<vUser, vProfile, isCartOpen, cartItems, cartLoading, checkingOut,
                 fetchCart, checkoutReq, lastRun, orderSummary, confirmReq, cToast>>
  /\ UNCHANGED <<routeVars, groupVars, shopTables, supplierVars, callVars>>

\* VendorDashboard.tsx:553-558 confirmIndividualOrder with placeIndividualOrder
\* (493-523) up to confirmOrder's await: Confirm Order
ConfirmOrder ==
  /\ vUser # NoUser
  /\ showOrderSummary
  /\ confirmReq = NoReq
  /\ IF vProfile /\ \E m \in materials[vUser] : m.id = selectedMaterial[vUser].id
     THEN LET material == CHOOSE m \in materials[vUser] : m.id = selectedMaterial[vUser].id
          IN /\ Len(dbOrders) + PendingOrderRows + 1 <= MaxOrders
             /\ orderSummary' = OrderSummaryText(material, 1)
             /\ confirmReq' = [pc |-> "insert", user |-> vUser,
                               row |-> IndividualOrder(vUser, material, 1)]
     ELSE UNCHANGED <<orderSummary, confirmReq>>
  /\ UNCHANGED <<vUser, vProfile, isCartOpen, cartItems, cartLoading, checkingOut,
                 fetchCart, checkoutReq, lastRun, showOrderSummary, cToast>>
  /\ UNCHANGED <<routeVars, groupVars, shopTables, supplierVars, callVars>>

\* VendorDashboard.tsx:513-524: the insert is answered; an error is thrown out
\* of confirmOrder and nothing else happens, otherwise the log insert leaves
ConfirmInsertDone(ok) ==
  /\ confirmReq.pc = "insert"
  /\ IF ok
     THEN /\ dbOrders' = InsertOrders(dbOrders, <<confirmReq.row>>)
          /\ confirmReq' = [confirmReq EXCEPT !.pc = "log"]
     ELSE /\ confirmReq' = NoReq
          /\ UNCHANGED dbOrders
  /\ UNCHANGED <<dbCart, dbLogs, vUser, vProfile, isCartOpen, cartItems, cartLoading,
                 checkingOut, fetchCart, checkoutReq, lastRun, showOrderSummary,
                 orderSummary, cToast>>
  /\ UNCHANGED <<routeVars, groupVars, supplierVars, callVars>>

\* VendorDashboard.tsx:526-539: the log insert is answered (result unread)
ConfirmLogDone(ok) ==
  /\ confirmReq.pc = "log"
  /\ dbLogs' = IF ok THEN Append(dbLogs, [vendor_id |-> confirmReq.user, kind |-> "order"])
               ELSE dbLogs
  /\ cToast' = "Order placed!"
  /\ showOrderSummary' = FALSE
  /\ confirmReq' = NoReq
  /\ UNCHANGED <<dbOrders, dbCart, vUser, vProfile, isCartOpen, cartItems, cartLoading,
                 checkingOut, fetchCart, checkoutReq, lastRun, orderSummary>>
  /\ UNCHANGED <<routeVars, groupVars, supplierVars, callVars>>

\* ------------------------------------------------------ cart item handlers
MaxAddCalls == 2
MaxCartAdds == 1
MaxQtyCalls == 1

RemoveAt(seq, k) == [i \in 1..(Len(seq) - 1) |-> IF i < k THEN seq[i] ELSE seq[i + 1]]

\* VendorDashboard.tsx:450-455: the rows the select matches
CartRowsOf(uid, materialId) ==
  LET match(c) == c.vendor_id = uid /\ c.material_id = materialId
  IN SelectSeq(dbCart, match)

\* .maybeSingle(): the row when exactly one matches, otherwise data is null
\* (no row: null without error; several rows: an error, which line 450 drops)
MaybeSingle(rows) == IF Len(rows) = 1 THEN rows[1] ELSE NoRow

\* ids are generated by the database and never reused
FreshCartId ==
  LET used == {dbCart[i].id : i \in DOMAIN dbCart} \cup
              {addCalls[k].inserted : k \in DOMAIN addCalls} \cup {0}
  IN (CHOOSE x \in used : \A y \in used : y <= x) + 1

\* .update({ quantity }).eq('id', id) on a list of cart rows
SetRowQuantity(rows, id, quantity) ==
  [i \in DOMAIN rows |->
     IF rows[i].id = id THEN [rows[i] EXCEPT !.quantity = quantity] ELSE rows[i]]

\* .delete().eq('id', id) / prev.filter(item => item.id !== id)
DeleteRow(rows, id) ==
  LET keep(r) == r.id # id IN SelectSeq(rows, keep)

\* VendorDashboard.tsx:445-455 addToCart up to the select.  The Add to Cart
\* button of a material card passes quantity 1 (line 703).
AddToCart(m, quantity) ==
  /\ Len(addCalls) < MaxAddCalls
  /\ m \in materials[vUser]
  /\ IF vUser = NoUser
     THEN UNCHANGED addCalls
     ELSE addCalls' = Append(addCalls,
            [pc |-> "select", uid |-> vUser, material_id |-> m.id,
             quantity |-> quantity, existingItem |-> NoRow, inserted |-> 0])
  /\ UNCHANGED <<calls, qtyReq, shopTables, cartVars>>
  /\ UNCHANGED <<routeVars, groupVars, supplierVars>>

\* VendorDashboard.tsx:450-473: the select is answered (ok: with data) and the
\* update or the insert leaves
AddToCartSelectDone(k, ok) ==
  /\ addCalls[k].pc = "select"
  /\ LET existingItem == IF ok
                         THEN MaybeSingle(CartRowsOf(addCalls[k].uid, addCalls[k].material_id))
                         ELSE NoRow
     IN addCalls' = [addCalls EXCEPT ![k] =
          [@ EXCEPT !.existingItem = existingItem,
                    !.pc = IF existingItem # NoRow /\ existingItem.quantity # 0
                           THEN "update" ELSE "insert"]]
  /\ UNCHANGED <<calls, qtyReq, shopTables, cartVars>>
  /\ UNCHANGED <<routeVars, groupVars, supplierVars>>

\* VendorDashboard.tsx:457-464: quantity read by the select plus the added one
AddToCartUpdate(call) ==
  SetRowQuantity(dbCart, call.existingItem.id, call.existingItem.quantity + call.quantity)

\* VendorDashboard.tsx:457-490: the update or the insert is answered
AddToCartWriteDone(k, ok) ==
  /\ addCalls[k].pc \in {"update", "insert"}
  /\ IF ~ok
     THEN /\ addCalls' = [addCalls EXCEPT ![k].pc = "failed", ![k].existingItem = NoRow]
          /\ cToast' = "Error"
          /\ UNCHANGED dbCart
     ELSE /\ cToast' = "Added to cart!"
          /\ IF addCalls[k].pc = "update"
             THEN /\ dbCart' = AddToCartUpdate(addCalls[k])
                  /\ addCalls' = [addCalls EXCEPT ![k].pc = "added",
                                                  ![k].existingItem = NoRow]
             ELSE /\ dbCart' = Append(dbCart,
                       [id |-> FreshCartId, vendor_id |-> addCalls[k].uid,
                        material_id |-> addCalls[k].material_id,
                        quantity |-> addCalls[k].quantity])
                  /\ addCalls' = [addCalls EXCEPT ![k].pc = "added",
                                                  ![k].inserted = FreshCartId]
  /\ UNCHANGED <<calls, qtyReq, dbOrders, dbLogs>>
  /\ UNCHANGED <<vUser, vProfile, isCartOpen, cartItems, cartLoading, checkingOut,
                 fetchCart, checkoutReq, lastRun, showOrderSummary,
                 orderSummary, confirmReq>>
  /\ UNCHANGED <<routeVars, groupVars, supplierVars>>

UpdateQuantityStores(newQuantity) == FALSE

\* types.ts:529-532: a new quantity <= 0 is a removal
UpdateQuantityRemoves(newQuantity) == newQuantity <= 0

\* types.ts:528-538 updateQuantity(cartItemId, newQuantity) up to its request,
\* called with a row of the local list and that row's quantity - 1 or + 1
\* (lines 700-717; the plus button is disabled at the material's stock).
UpdateQuantity(k, newQuantity) ==
  /\ isCartOpen
  /\ Len(qtyReq) < MaxQtyCalls
  /\ k \in DOMAIN cartItems
  /\ newQuantity \in {cartItems[k].quantity - 1, cartItems[k].quantity + 1}
  /\ newQuantity > cartItems[k].quantity => cartItems[k].quantity < cartItems[k].materials.stock
  /\ qtyReq' = Append(qtyReq,
       IF UpdateQuantityRemoves(newQuantity)
       THEN [op |-> "remove", from |-> "updateQuantity", id |-> cartItems[k].id,
             quantity |-> 0]
       ELSE [op |-> "update", from |-> "updateQuantity", id |-> cartItems[k].id,
             quantity |-> newQuantity])
  /\ UNCHANGED <<calls, addCalls, shopTables, cartVars>>
  /\ UNCHANGED <<routeVars, groupVars, supplierVars>>

\* types.ts:559-564 removeFromCart(cartItemId) up to its request (line 729)
RemoveFromCart(k) ==
  /\ isCartOpen
  /\ Len(qtyReq) < MaxQtyCalls
  /\ k \in DOMAIN cartItems
  /\ qtyReq' = Append(qtyReq, [op |-> "remove", from |-> "removeFromCart",
                               id |-> cartItems[k].id, quantity |-> 0])
  /\ UNCHANGED <<calls, addCalls, shopTables, cartVars>>
  /\ UNCHANGED <<routeVars, groupVars, supplierVars>>

\* types.ts:535-556: the update is answered
UpdateQuantityDone(j, ok) ==
  /\ j \in DOMAIN qtyReq
  /\ qtyReq[j].op = "update"
  /\ qtyReq' = RemoveAt(qtyReq, j)
  /\ IF ok
     THEN /\ dbCart' = SetRowQuantity(dbCart, qtyReq[j].id, qtyReq[j].quantity)
          /\ cartItems' = SetRowQuantity(cartItems, qtyReq[j].id, qtyReq[j].quantity)
          /\ UNCHANGED cToast
     ELSE /\ cToast' = "Error"
          /\ UNCHANGED <<dbCart, cartItems>>
  /\ UNCHANGED <<calls, addCalls, dbOrders, dbLogs>>
  /\ UNCHANGED <<vUser, vProfile, isCartOpen, cartLoading, checkingOut, fetchCart,
                 checkoutReq, lastRun, showOrderSummary, orderSummary, confirmReq>>
  /\ UNCHANGED <<routeVars, groupVars, supplierVars>>

\* types.ts:561-581: the delete is answered
RemoveFromCartDone(j, ok) ==
  /\ j \in DOMAIN qtyReq
  /\ qtyReq[j].op = "remove"
  /\ qtyReq' = RemoveAt(qtyReq, j)
  /\ IF ok
     THEN /\ dbCart' = DeleteRow(dbCart, qtyReq[j].id)
          /\ cartItems' = DeleteRow(cartItems, qtyReq[j].id)
          /\ cToast' = "Item removed"
     ELSE /\ cToast' = "Error"
          /\ UNCHANGED <<dbCart, cartItems>>
  /\ UNCHANGED <<calls, addCalls, dbOrders, dbLogs>>
  /\ UNCHANGED <<vUser, vProfile, isCartOpen, cartLoading, checkingOut, fetchCart,
                 checkoutReq, lastRun, showOrderSummary, orderSummary, confirmReq>>
  /\ UNCHANGED <<routeVars, groupVars, supplierVars>>

\* ------------------------------------------------------------ initial states
GroupIdle ==
  /\ now = 0
  /\ dbMaterials = << >>
  /\ dbGroupOrders = << >>
  /\ dbParticipants = << >>
  /\ materials = [v \in Vendors |-> {}]
  /\ groupOrders = [v \in Vendors |-> {}]
  /\ vLoading = [v \in Vendors |-> TRUE]
  /\ fetchMat = [v \in Vendors |-> FALSE]
  /\ fetchGO = [v \in Vendors |-> NoFetch]
  /\ goFetchedAt = [v \in Vendors |-> 0]
  /\ join = [v \in Vendors |-> NoReq]
  /\ toast = [v \in Vendors |-> ""]
  /\ isGroupOrderModalOpen = [v \in Vendors |-> FALSE]
  /\ selectedMaterial = [v \in Vendors |-> NoRow]
  /\ modalLoading = [v \in Vendors |-> FALSE]
  /\ createReq = [v \in Vendors |-> NoReq]

CallsIdle ==
  /\ calls = [v \in Vendors |-> << >>]
  /\ addCalls = << >>
  /\ qtyReq = << >>

ShopIdle ==
  /\ CallsIdle
  /\ dbOrders = << >>
  /\ dbCart = << >>
  /\ dbLogs = << >>

SupplierIdle ==
  /\ sUser = NoUser
  /\ sMaterials = {}
  /\ sOrders = << >>
  /\ sLoading = TRUE
  /\ isAddingMaterial = FALSE
  /\ newMaterial = NewMaterialDefaults
  /\ sFetchMat = NoUser
  /\ sFetchOrders = NoUser
  /\ addReq = NoReq
  /\ statusReq = NoReq
  /\ sToast = ""

NoSummary == [material |-> 0, quantity |-> 0, price |-> 0, total |-> 0, supplier |-> ""]

CartIdleOf(uid) ==
  /\ vUser = uid
  /\ vProfile = FALSE
  /\ isCartOpen = FALSE
  /\ cartItems = << >>
  /\ cartLoading = FALSE
  /\ checkingOut = FALSE
  /\ fetchCart = NoUser
  /\ checkoutReq = NoReq
  /\ lastRun = NoRun
  /\ showOrderSummary = FALSE
  /\ orderSummary = NoSummary
  /\ confirmReq = NoReq
  /\ cToast = ""

CartIdle == CartIdleOf(NoUser)

RouteIdle ==
  /\ user = NoUser
  /\ authLoading = TRUE
  /\ routeView = "loading"
  /\ profilesDB = [u \in Users |-> "vendor"]
  /\ profile = NoProfile
  /\ profileLoading = TRUE
  /\ profileError = FALSE
  /\ profileReq = NoUser
  /\ dashboardView = "unmounted"

InitRoute ==
  /\ GroupIdle /\ ShopIdle /\ SupplierIdle /\ CartIdle
  /\ user = NoUser
  /\ authLoading = TRUE
  /\ routeView = ProtectedRoute(NoUser, TRUE)
  /\ profilesDB \in [Users -> Roles]
  /\ profile = NoProfile
  /\ profileLoading = TRUE
  /\ profileError = FALSE
  /\ profileReq = NoUser
  /\ dashboardView = "unmounted"

NextRoute ==
  \/ \E u \in Users \cup {NoUser} : AuthResolved(u)
  \/ \E u \in Users, ok \in BOOLEAN : HandleSignIn(u, ok)
  \/ HandleSignOut
  \/ \E ok \in BOOLEAN : FetchProfileDone(ok)

SpecRoute == InitRoute /\ [][NextRoute]_vars

\* The vendor dashboards, mounting: the catalog holds one material in stock and
\* one that is in stock or sold out; the group-order table holds nothing, or two
\* rows a vendor opened earlier, one of them closed by the backend since.  "u1" and
\* "u2" browse and refresh, "u2" also starts group orders.
SeedMaterial(id, stock) == MaterialRow(id, "s1", 10 * id, stock)

SeedGroupOrder(id, status) ==
  [id |-> id, material_id |-> 1, min_quantity |-> DefaultMinQuantity, current_price |-> 9,
   expires_at |-> 1, participants |-> <<"u3">>, total_quantity |-> 1, status |-> status]

InitVendor ==
  /\ RouteIdle /\ ShopIdle /\ SupplierIdle /\ CartIdle
  /\ now = 0
  /\ \E stock \in {0, 5} : dbMaterials = <<SeedMaterial(1, 5), SeedMaterial(2, stock)>>
  /\ dbGroupOrders \in {<< >>, <<SeedGroupOrder(1, "open"), SeedGroupOrder(2, "closed")>>}
  /\ dbParticipants = << >>
  /\ materials = [v \in Vendors |-> {}]
  /\ groupOrders = [v \in Vendors |-> {}]
  /\ vLoading = [v \in Vendors |-> TRUE]
  \* the mount effect (VendorDashboard.tsx:401-404) has issued both fetches
  /\ fetchMat = [v \in Vendors |-> v \in {"u1", "u2"}]
  /\ fetchGO = [v \in Vendors |-> IF v \in {"u1", "u2"} THEN 0 ELSE NoFetch]
  /\ goFetchedAt = [v \in Vendors |-> 0]
  /\ join = [v \in Vendors |-> NoReq]
  /\ toast = [v \in Vendors |-> ""]
  /\ isGroupOrderModalOpen = [v \in Vendors |-> FALSE]
  /\ selectedMaterial = [v \in Vendors |-> NoRow]
  /\ modalLoading = [v \in Vendors |-> FALSE]
  /\ createReq = [v \in Vendors |-> NoReq]

NextVendor ==
  \/ \E v \in {"u1"} : OnRefresh(v)
  \/ \E v \in {"u1", "u2"}, ok \in BOOLEAN : FetchMaterialsDone(v, ok)
  \/ \E v \in {"u1", "u2"}, t \in 0..MaxTime, ok \in BOOLEAN : FetchGroupOrdersDone(v, t, ok)
  \/ \E m \in Rows(dbMaterials) : OpenGroupOrderModal("u2", m)
  \/ CloseGroupOrderModal("u2")
  \/ \E expiryDays \in ExpiryDays :
        CreateGroupOrder("u2", DefaultMinQuantity,
                         DefaultDiscountedPrice(selectedMaterial["u2"]), expiryDays)
  \/ \E ok \in BOOLEAN : CreateGroupOrderDone("u2", ok)
  \/ Tick

SpecVendor == InitVendor /\ [][NextVendor]_vars

\* Group orders: "u3", whose dashboard is mounted and has its first fetches
\* answered, starts group orders; "u1" and "u2", whose dashboards are mounting
\* (the catalog has arrived, the group-order list has not), join them.
InitGroup ==
  /\ RouteIdle /\ ShopIdle /\ SupplierIdle /\ CartIdle
  /\ now = 0
  /\ dbMaterials = <<SeedMaterial(1, 5)>>
  /\ dbGroupOrders = << >>
  /\ dbParticipants = << >>
  /\ materials = [v \in Vendors |-> MaterialsQuery]
  /\ groupOrders = [v \in Vendors |-> {}]
  /\ vLoading = [v \in Vendors |-> v # "u3"]
  /\ fetchMat = [v \in Vendors |-> FALSE]
  /\ fetchGO = [v \in Vendors |-> IF v \in {"u1", "u2"} THEN 0 ELSE NoFetch]
  /\ goFetchedAt = [v \in Vendors |-> 0]
  /\ join = [v \in Vendors |-> NoReq]
  /\ toast = [v \in Vendors |-> ""]
  /\ isGroupOrderModalOpen = [v \in Vendors |-> FALSE]
  /\ selectedMaterial = [v \in Vendors |-> NoRow]
  /\ modalLoading = [v \in Vendors |-> FALSE]
  /\ createReq = [v \in Vendors |-> NoReq]

NextGroup ==
  \/ \E v \in Vendors, t \in 0..MaxTime, ok \in BOOLEAN : FetchGroupOrdersDone(v, t, ok)
  \/ \E m \in Rows(dbMaterials) : OpenGroupOrderModal("u3", m)
  \/ CloseGroupOrderModal("u3")
  \/ \E minQuantity \in MinQuantities :
        CreateGroupOrder("u3", minQuantity,
                         DefaultDiscountedPrice(selectedMaterial["u3"]), DefaultExpiryDays)
  \/ \E ok \in BOOLEAN : CreateGroupOrderDone("u3", ok)
  \/ \E v \in {"u1", "u2"}, id \in 1..MaxGroupOrders, q \in Quantities :
        JoinGroupOrder(v, id, q)
  \/ \E v \in {"u1", "u2"}, ok \in BOOLEAN : JoinInsertDone(v, ok)
  \/ \E v \in {"u1", "u2"}, ok \in BOOLEAN : JoinUpdateDone(v, ok)

SpecGroup == InitGroup /\ [][NextGroup]_vars

\* Group orders over time: as above, with "u3" choosing the expiry, "u1"
\* joining, and days passing between a fetch and a join.
NextExpiry ==
  \/ \E v \in Vendors, t \in 0..MaxTime, ok \in BOOLEAN : FetchGroupOrdersDone(v, t, ok)
  \/ \E m \in Rows(dbMaterials) : OpenGroupOrderModal("u3", m)
  \/ CloseGroupOrderModal("u3")
  \/ \E minQuantity \in MinQuantities, expiryDays \in ExpiryDays :
        CreateGroupOrder("u3", minQuantity,
                         DefaultDiscountedPrice(selectedMaterial["u3"]), expiryDays)
  \/ \E ok \in BOOLEAN : CreateGroupOrderDone("u3", ok)
  \/ \E id \in 1..MaxGroupOrders, q \in Quantities : JoinGroupOrder("u1", id, q)
  \/ \E ok \in BOOLEAN : JoinInsertDone("u1", ok)
  \/ \E ok \in BOOLEAN : JoinUpdateDone("u1", ok)
  \/ Tick

SpecExpiry == InitGroup /\ [][NextExpiry]_vars

\* The vendor sessions with nothing in flight
VendorsIdle ==
  /\ now = 0
  /\ dbGroupOrders = << >>
  /\ dbParticipants = << >>
  /\ groupOrders = [v \in Vendors |-> {}]
  /\ fetchMat = [v \in Vendors |-> FALSE]
  /\ fetchGO = [v \in Vendors |-> NoFetch]
  /\ goFetchedAt = [v \in Vendors |-> 0]
  /\ join = [v \in Vendors |-> NoReq]
  /\ toast = [v \in Vendors |-> ""]
  /\ isGroupOrderModalOpen = [v \in Vendors |-> FALSE]
  /\ selectedMaterial = [v \in Vendors |-> NoRow]
  /\ modalLoading = [v \in Vendors |-> FALSE]
  /\ createReq = [v \in Vendors |-> NoReq]

\* values a vendor leaves in the Create Group Order form: the defaults, a
\* cleared minimum-quantity or expiry field (Number('') is 0), a negative price
FormMinQuantities == {0, DefaultMinQuantity}
FormPrices(m) == {0 - 1, DefaultDiscountedPrice(m)}
FormExpiryDays == {0, DefaultExpiryDays}

\* Creating group orders: the dashboards of "u3" and of a session without a
\* user are mounted and show the catalog; each opens the modal, fills in the
\* form and creates; "u3" also tries to join.
InitCreate ==
  /\ RouteIdle /\ ShopIdle /\ SupplierIdle /\ CartIdle /\ VendorsIdle
  /\ dbMaterials = <<SeedMaterial(1, 5)>>
  /\ materials = [v \in Vendors |-> IF v \in {"u3", "anon"} THEN MaterialsQuery ELSE {}]
  /\ vLoading = [v \in Vendors |-> v \notin {"u3", "anon"}]

NextCreate ==
  \/ \E v \in {"u3", "anon"}, t \in 0..MaxTime, ok \in BOOLEAN : FetchGroupOrdersDone(v, t, ok)
  \/ \E v \in {"u3", "anon"}, m \in Rows(dbMaterials) : OpenGroupOrderModal(v, m)
  \/ \E v \in {"u3", "anon"} : CloseGroupOrderModal(v)
  \/ \E v \in {"u3", "anon"}, minQuantity \in FormMinQuantities,
        discountedPrice \in FormPrices(dbMaterials[1]), expiryDays \in FormExpiryDays :
        CreateGroupOrder(v, minQuantity, discountedPrice, expiryDays)
  \/ \E v \in {"u3", "anon"}, ok \in BOOLEAN : CreateGroupOrderDone(v, ok)
  \/ \E v \in {"u3", "anon"}, id \in 1..MaxGroupOrders, q \in Quantities :
        JoinGroupOrder(v, id, q)
  \/ Tick

SpecCreate == InitCreate /\ [][NextCreate]_vars

\* the mount effect of SupplierDashboard.tsx:59-64: both fetches leave when a
\* user is signed in, none otherwise
SupplierMounting(u) ==
  /\ sUser = u
  /\ sMaterials = {}
  /\ sOrders = << >>
  /\ sLoading = TRUE
  /\ isAddingMaterial = FALSE
  /\ newMaterial = NewMaterialDefaults
  /\ sFetchMat = u
  /\ sFetchOrders = u
  /\ addReq = NoReq
  /\ statusReq = NoReq
  /\ sToast = ""

SeedOrder(id, vendor, material, quantity) ==
  StoredOrder(IndividualOrder(vendor, material, quantity), id)

SeedCartItem(id, vendor, materialId, quantity) ==
  [id |-> id, vendor_id |-> vendor, material_id |-> materialId, quantity |-> quantity]

\* A supplier's dashboard, mounting, over a catalog that holds one material of
\* each supplier; the supplier fills in the form and adds materials.
InitSupplier ==
  /\ RouteIdle /\ ShopIdle /\ CartIdle /\ VendorsIdle
  /\ dbMaterials = <<MaterialRow(1, "s1", 10, 5), MaterialRow(2, "s2", 20, 5)>>
  /\ materials = [v \in Vendors |-> {}]
  /\ vLoading = [v \in Vendors |-> TRUE]
  /\ \E u \in Suppliers \cup {NoUser} : SupplierMounting(u)

NextSupplier ==
  \/ \E form \in MaterialForms : SetNewMaterial(form)
  \/ \E open \in BOOLEAN : SetIsAddingMaterial(open)
  \/ AddMaterial
  \/ \E ok \in BOOLEAN : AddMaterialDone(ok)
  \/ \E ok \in BOOLEAN : SupplierFetchMaterialsDone(ok)
  \/ \E ok \in BOOLEAN : SupplierFetchOrdersDone(ok)

SpecSupplier == InitSupplier /\ [][NextSupplier]_vars

\* What each user is shown: the tables hold materials, orders and cart rows of
\* two suppliers and two vendors; a supplier's dashboard is mounting and a
\* vendor's cart is closed, each with a signed-in user or with none.
InitViews ==
  /\ CallsIdle
  /\ RouteIdle /\ VendorsIdle
  /\ dbMaterials = <<MaterialRow(1, "s1", 10, 5), MaterialRow(2, "s2", 20, 5)>>
  /\ materials = [v \in Vendors |-> {}]
  /\ vLoading = [v \in Vendors |-> TRUE]
  /\ dbOrders = <<SeedOrder(1, "u1", dbMaterials[1], 1), SeedOrder(2, "u2", dbMaterials[2], 2),
                  SeedOrder(3, "u2", dbMaterials[1], 1)>>
  /\ dbCart = <<SeedCartItem(1, "u1", 1, 2), SeedCartItem(2, "u2", 2, 1),
                SeedCartItem(3, "u1", 2, 1)>>
  /\ dbLogs = << >>
  /\ \E u \in Suppliers \cup {NoUser} : SupplierMounting(u)
  /\ vUser \in {NoUser, "u1", "u2"}
  /\ vProfile = FALSE
  /\ isCartOpen = FALSE
  /\ cartItems = << >>
  /\ cartLoading = FALSE
  /\ checkingOut = FALSE
  /\ fetchCart = NoUser
  /\ checkoutReq = NoReq
  /\ lastRun = NoRun
  /\ showOrderSummary = FALSE
  /\ orderSummary = NoSummary
  /\ confirmReq = NoReq
  /\ cToast = ""

NextViews ==
  \/ \E ok \in BOOLEAN : SupplierFetchMaterialsDone(ok)
  \/ \E ok \in BOOLEAN : SupplierFetchOrdersDone(ok)
  \/ \E id \in DOMAIN dbOrders, status \in {"confirmed", "cancelled", "delivered"} :
        UpdateOrderStatus(id, status)
  \/ \E ok \in BOOLEAN : UpdateOrderStatusDone(ok)
  \/ OpenCart
  \/ CloseCart
  \/ \E ok \in BOOLEAN : FetchCartItemsDone(ok)

SpecViews == InitViews /\ [][NextViews]_vars

\* Ordering: a vendor's dashboard is mounted and shows the catalog, the
\* vendor's profile has not arrived yet; the vendor's cart holds items of two
\* suppliers, or two items of one supplier, one of them sold out since; another
\* vendor's cart holds an item too.  The vendor checks out and places quick orders.
InitOrders ==
  /\ CallsIdle
  /\ RouteIdle /\ SupplierIdle /\ VendorsIdle
  /\ dbMaterials = <<MaterialRow(1, "s1", 10, 5), MaterialRow(2, "s2", 20, 5),
                     MaterialRow(3, "s1", 30, 0)>>
  /\ vUser \in {"u1"}
  /\ materials = [v \in Vendors |-> IF v = vUser THEN MaterialsQuery ELSE {}]
  /\ vLoading = [v \in Vendors |-> v # vUser]
  /\ dbOrders = << >>
  /\ dbCart \in {<<SeedCartItem(1, "u1", 1, 2), SeedCartItem(2, "u2", 1, 1),
                   SeedCartItem(3, "u1", 2, 1)>>,
                 <<SeedCartItem(1, "u1", 1, 2), SeedCartItem(2, "u2", 1, 1),
                   SeedCartItem(3, "u1", 3, 1)>>}
  /\ dbLogs = << >>
  /\ vProfile = FALSE
  /\ isCartOpen = FALSE
  /\ cartItems = << >>
  /\ cartLoading = FALSE
  /\ checkingOut = FALSE
  /\ fetchCart = NoUser
  /\ checkoutReq = NoReq
  /\ lastRun = NoRun
  /\ showOrderSummary = FALSE
  /\ orderSummary = NoSummary
  /\ confirmReq = NoReq
  /\ cToast = ""

NextOrders ==
  \/ VendorProfileLoaded
  \/ OpenCart
  \/ CloseCart
  \/ \E ok \in BOOLEAN : FetchCartItemsDone(ok)
  \/ Checkout
  \/ \E s \in Suppliers, ok \in BOOLEAN : CheckoutInsertDone(s, ok)
  \/ \E ok \in BOOLEAN : CheckoutLogDone(ok)
  \/ \E ok \in BOOLEAN : CheckoutClearDone(ok)
  \/ \E ok \in BOOLEAN : FetchMaterialsDone(vUser, ok)
  \/ \E t \in 0..MaxTime, ok \in BOOLEAN : FetchGroupOrdersDone(vUser, t, ok)
  \/ \E m \in Rows(dbMaterials) : QuickOrder(m)
  \/ CancelOrderSummary
  \/ ConfirmOrder
  \/ \E ok \in BOOLEAN : ConfirmInsertDone(ok)
  \/ \E ok \in BOOLEAN : ConfirmLogDone(ok)

SpecOrders == InitOrders /\ [][NextOrders]_vars

\* The Add to Cart buttons: vendor "u1" browses the catalog and adds
\* materials to a cart that holds material 1, opening the cart drawer now
\* and then.
InitAdd ==
  /\ CallsIdle
  /\ RouteIdle /\ SupplierIdle /\ VendorsIdle /\ CartIdleOf("u1")
  /\ dbMaterials = <<MaterialRow(1, "s1", 10, 5), MaterialRow(2, "s2", 20, 5)>>
  /\ materials = [v \in Vendors |-> IF v = "u1" THEN MaterialsQuery ELSE {}]
  /\ vLoading = [v \in Vendors |-> v # "u1"]
  /\ dbOrders = << >>
  /\ dbCart = <<SeedCartItem(1, "u2", 1, 1), SeedCartItem(2, "u1", 1, 1)>>
  /\ dbLogs = << >>

NextAdd ==
  \/ \E m \in Rows(dbMaterials), q \in Quantities : AddToCart(m, q)
  \/ \E k \in DOMAIN addCalls, ok \in BOOLEAN : AddToCartSelectDone(k, ok)
  \/ \E k \in DOMAIN addCalls, ok \in BOOLEAN : AddToCartWriteDone(k, ok)
  \/ OpenCart
  \/ CloseCart
  \/ \E ok \in BOOLEAN : FetchCartItemsDone(ok)

SpecAdd == InitAdd /\ [][NextAdd]_vars

\* The cart drawer: "u1" adds a material and changes or removes cart rows.
InitCart ==
  /\ CallsIdle
  /\ RouteIdle /\ SupplierIdle /\ VendorsIdle /\ CartIdleOf("u1")
  /\ dbMaterials = <<MaterialRow(1, "s1", 10, 2)>>
  /\ materials = [v \in Vendors |-> IF v = "u1" THEN MaterialsQuery ELSE {}]
  /\ vLoading = [v \in Vendors |-> v # "u1"]
  /\ dbOrders = << >>
  /\ dbCart = <<SeedCartItem(1, "u1", 1, 1)>>
  /\ dbLogs = << >>

NextCart ==
  \/ \E m \in Rows(dbMaterials), q \in Quantities :
        Len(addCalls) < MaxCartAdds /\ AddToCart(m, q)
  \/ \E k \in DOMAIN addCalls, ok \in BOOLEAN : AddToCartSelectDone(k, ok)
  \/ \E k \in DOMAIN addCalls, ok \in BOOLEAN : AddToCartWriteDone(k, ok)
  \/ OpenCart
  \/ CloseCart
  \/ \E ok \in BOOLEAN : FetchCartItemsDone(ok)
  \/ \E k \in DOMAIN cartItems, d \in {0 - 1, 1} : UpdateQuantity(k, cartItems[k].quantity + d)
  \/ \E k \in DOMAIN cartItems : RemoveFromCart(k)
  \/ \E j \in DOMAIN qtyReq, ok \in BOOLEAN : UpdateQuantityDone(j, ok)
  \/ \E j \in DOMAIN qtyReq, ok \in BOOLEAN : RemoveFromCartDone(j, ok)

SpecCart == InitCart /\ [][NextCart]_vars

\* -------------------------------------------------------------------- claims

\* C1: joinGroupOrder writes participants and total_quantity computed from the
\* vendor's cached copy of the group order, whatever the stored row has become:
\* when the update of vendor w succeeds (w is told 'Joined group order!'), the
\* stored row is the cached copy plus w, so a vendor v who was told 'Joined group
\* order!' and is in the stored row, but was not in w's cached copy, is no longer
\* a participant, and total_quantity counts only w's join on top of the cached one.
C1_LostUpdate ==
  [][\A w \in Vendors :
       (join[w].pc = "update" /\ join'[w] = NoReq /\ toast'[w] = "Joined group order!")
       => LET go == join[w].groupOrder
              before == dbGroupOrders[go.id]
              after == dbGroupOrders'[go.id] IN
          /\ after.participants = Append(go.participants, w)
          /\ after.total_quantity = go.total_quantity + join[w].quantity
          /\ \A v \in Vendors \ {w} :
               (/\ toast[v] = "Joined group order!"
                /\ SeqContains(before.participants, v)
                /\ ~SeqContains(go.participants, v))
               => /\ ~SeqContains(after.participants, v)
                  /\ after.total_quantity < before.total_quantity + join[w].quantity
    ]_vars

\* Two vendors were both told 'Joined group order!' for the same group order (each
\* has its group_order_participants row), and the stored row holds only the later.
C1_Witness ==
  \E v \in Vendors, w \in Vendors, i \in DOMAIN dbGroupOrders :
    /\ v # w
    /\ toast[v] = "Joined group order!"
    /\ toast[w] = "Joined group order!"
    /\ \E r \in Rows(dbParticipants) : r.vendor_id = v /\ r.group_order_id = i
    /\ \E r \in Rows(dbParticipants) : r.vendor_id = w /\ r.group_order_id = i
    /\ SeqContains(dbGroupOrders[i].participants, w)
    /\ ~SeqContains(dbGroupOrders[i].participants, v)
    /\ dbGroupOrders[i].total_quantity = 2

\* C2: the discounted price of a group order is in effect if and only if its
\* pooled total_quantity has reached its min_quantity.
C2_DiscountOnlyAtThreshold ==
  \A i \in DOMAIN dbGroupOrders :
    LET g == dbGroupOrders[i] IN
    (PriceShown(g) < dbMaterials[g.material_id].price)
      <=> (g.total_quantity >= g.min_quantity)

\* C6: every material in a vendor's materials list had stock > 0 when fetched, and
\* every group order in a vendor's groupOrders list had status 'open' and an
\* expires_at strictly later than the timestamp of the fetch that brought it.
C6_FetchFilters ==
  \A v \in Vendors :
    /\ \A m \in materials[v] : m.stock > 0
    /\ \A g \in groupOrders[v] : g.status = "open" /\ g.expires_at > goFetchedAt[v]

\* A vendor's lists are filled while the tables hold a sold-out material and a
\* group order that is closed or was expired at the time of the fetch.
C6_Witness ==
  \E v \in Vendors :
    /\ materials[v] # {}
    /\ groupOrders[v] # {}
    /\ \E m \in Rows(dbMaterials) : m.stock = 0
    /\ \E g \in Rows(dbGroupOrders) : g.status # "open" \/ g.expires_at <= goFetchedAt[v]

\* C8: ProtectedRoute renders its children only when loading has finished and a
\* user is signed in; while loading it renders the loading indicator, and with no
\* user it redirects to /auth.
C8_ProtectedRoute ==
  /\ routeView = "children" => (~authLoading /\ user # NoUser)
  /\ authLoading => routeView = "loading"
  /\ (~authLoading /\ user = NoUser) => routeView = "redirect"

\* The children are rendered for a signed-in user.
C8_Witness == routeView = "children" /\ user \in Users

\* C9: Dashboard renders VendorDashboard only for a loaded profile with role
\* 'vendor' and SupplierDashboard only for one with role 'supplier'; while the
\* profile loads it shows the loading view, with no profile 'Profile Setup
\* Required', with another role 'Unknown Role'; the user whose dashboard is shown
\* has that role in the profiles table.
C9_RoleDispatch ==
  dashboardView # "unmounted" =>
    /\ dashboardView = "vendor" =>
         (~profileLoading /\ profile.role = "vendor" /\ profilesDB[user] = "vendor")
    /\ dashboardView = "supplier" =>
         (~profileLoading /\ profile.role = "supplier" /\ profilesDB[user] = "supplier")
    /\ profileLoading => dashboardView = "loading"
    /\ (~profileLoading /\ profile = NoProfile) => dashboardView = "setup"
    /\ (~profileLoading /\ profile # NoProfile /\ profile.role \notin {"vendor", "supplier"})
         => dashboardView = "unknown"

\* A profile with a role that is neither vendor nor supplier has been loaded.
C9_Witness ==
  /\ dashboardView = "unknown"
  /\ profile.role = "admin"
  /\ \E u \in Users : profilesDB[u] = "vendor" /\ u # user

\* how often the orders table holds the row (id and status apart)
CountOrders(orders, row) ==
  Cardinality({i \in DOMAIN orders :
                 [orders[i] EXCEPT !.status = "pending"] = StoredOrder(row, orders[i].id)})

\* C3: checkout is not idempotent.  A run that ends in "Checkout failed" leaves
\* the cart as it was and leaves the orders of the suppliers whose insert had
\* succeeded in the table; when the vendor then runs checkout again on the same
\* cart, every order of a supplier whose insert succeeded in the failed run and
\* succeeds again is in the table a second time.
C3_CheckoutNotIdempotent ==
  lastRun.outcome = "failed" =>
    /\ checkoutReq = NoReq => cartItems = lastRun.items
    /\ \A s \in lastRun.ok :
         \A k \in 1..Len(CheckoutOrders(lastRun.items, s, vUser)) :
           CountOrders(dbOrders, CheckoutOrders(lastRun.items, s, vUser)[k]) >= 1
    /\ \A s \in lastRun.ok :
         (/\ checkoutReq.pc \in {"inserts", "log", "clear"}
          /\ checkoutReq.items = lastRun.items
          /\ s \in checkoutReq.ok)
         => \A k \in DOMAIN checkoutReq.sent[s] :
              CountOrders(dbOrders, checkoutReq.sent[s][k]) >= 2

C3_Witness ==
  /\ lastRun.outcome = "failed"
  /\ checkoutReq.pc = "log"
  /\ checkoutReq.items = lastRun.items
  /\ lastRun.ok # {}

\* the order row the claim describes for a cart item or a quick order
ExpectedOrder(uid, materialId, quantity) ==
  [vendor_id |-> uid, supplier_id |-> dbMaterials[materialId].supplier_id,
   material_id |-> materialId, quantity |-> quantity,
   total_price |-> dbMaterials[materialId].price * quantity, type |-> "individual"]

\* all rows of the inserts a checkout run has sent
SentRows(run) == UNION {Rows(run.sent[s]) : s \in DOMAIN run.sent}

\* C4: every order row inserted by checkout or quick order has the signed-in
\* user's id as vendor_id, the ordered material's supplier_id, type
\* 'individual' and total_price = price * quantity; the inserts a checkout run
\* sends hold exactly one row per cart item, and after a run whose inserts all
\* succeeded the table holds a row for every cart item.
C4_OrderRows ==
  /\ \A i \in DOMAIN dbOrders :
       [dbOrders[i] EXCEPT !.status = "pending"]
         = StoredOrder(ExpectedOrder(vUser, dbOrders[i].material_id, dbOrders[i].quantity),
                       dbOrders[i].id)
  /\ confirmReq.pc = "insert" =>
       confirmReq.row = ExpectedOrder(vUser, confirmReq.row.material_id, 1)
  /\ checkoutReq.pc \in {"inserts", "log", "clear"} =>
       LET items == checkoutReq.items
           expected(i) == ExpectedOrder(vUser, items[i].material_id, items[i].quantity)
       IN /\ SumLen(checkoutReq.sent, DOMAIN checkoutReq.sent) = Len(items)
          /\ \A i \in DOMAIN items :
               \E k \in DOMAIN checkoutReq.sent[expected(i).supplier_id] :
                 checkoutReq.sent[expected(i).supplier_id][k] = expected(i)
          /\ \A r \in SentRows(checkoutReq) : \E i \in DOMAIN items : r = expected(i)
          /\ checkoutReq.pc \in {"log", "clear"} =>
               \A i \in DOMAIN items : CountOrders(dbOrders, expected(i)) >= 1

C4_Witness ==
  /\ checkoutReq.pc = "clear"
  /\ Len(checkoutReq.items) = 2
  /\ \E i \in DOMAIN dbOrders : dbOrders[i].quantity = 2 /\ dbOrders[i].total_price = 20
  /\ \E i \in DOMAIN dbOrders : dbOrders[i].material_id = 2 /\ dbOrders[i].supplier_id = "s2"

\* C5: a signed-in supplier is shown only materials and orders whose supplier_id
\* is the user's id, a signed-in vendor's cart only cart items whose vendor_id
\* is the user's id; with no signed-in user no fetch is sent and nothing is shown.
C5_OwnRowsOnly ==
  /\ sUser # NoUser =>
       /\ \A m \in sMaterials : m.supplier_id = sUser
       /\ \A i \in DOMAIN sOrders : sOrders[i].supplier_id = sUser
       /\ sFetchMat \in {NoUser, sUser} /\ sFetchOrders \in {NoUser, sUser}
  /\ vUser # NoUser =>
       /\ \A i \in DOMAIN cartItems : cartItems[i].vendor_id = vUser
       /\ fetchCart \in {NoUser, vUser}
  /\ sUser = NoUser =>
       sFetchMat = NoUser /\ sFetchOrders = NoUser /\ sMaterials = {} /\ sOrders = << >>
  /\ vUser = NoUser => fetchCart = NoUser /\ cartItems = << >>

C5_Witness ==
  /\ sUser = "s1" /\ vUser = "u1"
  /\ Cardinality(sMaterials) = 1
  /\ Len(sOrders) = 2
  /\ Len(cartItems) = 2
  /\ \E i \in DOMAIN dbOrders : dbOrders[i].supplier_id # sUser
  /\ \E i \in DOMAIN dbCart : dbCart[i].vendor_id # vUser

\* C7: addMaterial inserts the form's values with supplier_id set to the
\* signed-in user's id and sends nothing without a signed-in user; on success it
\* resets the form to its defaults, closes the dialog and refetches the
\* materials; on failure it leaves form and dialog as they were and shows "Error".
C7_AddMaterial ==
  [][/\ sUser = NoUser => addReq' = NoReq /\ dbMaterials' = dbMaterials
     /\ (addReq = NoReq /\ addReq' # NoReq) =>
          addReq'.row = [name |-> newMaterial.name, description |-> newMaterial.description,
                         price |-> newMaterial.price, stock |-> newMaterial.stock,
                         unit |-> newMaterial.unit, supplier_id |-> sUser]
     /\ (addReq # NoReq /\ addReq' = NoReq) =>
          IF dbMaterials' # dbMaterials
          THEN /\ Len(dbMaterials') = Len(dbMaterials) + 1
               /\ SubSeq(dbMaterials', 1, Len(dbMaterials)) = dbMaterials
               /\ dbMaterials'[Len(dbMaterials')].supplier_id = sUser
               /\ newMaterial' = [name |-> "", description |-> "", price |-> 0,
                                  stock |-> 0, unit |-> "kg"]
               /\ isAddingMaterial' = FALSE
               /\ sFetchMat' = sUser
               /\ sToast' = "Material added!"
          ELSE /\ newMaterial' = newMaterial
               /\ isAddingMaterial' = isAddingMaterial
               /\ sToast' = "Error"
    ]_vars

C7_Witness ==
  /\ sUser = "s2"
  /\ sToast = "Material added!"
  /\ Len(dbMaterials) = 3
  /\ dbMaterials[3].supplier_id = "s2" /\ dbMaterials[3].price = 30
  /\ newMaterial = NewMaterialDefaults /\ ~isAddingMaterial
  /\ sFetchMat = "s2"

\* C10: clicking Quick Order shows the order summary and neither inserts a row
\* nor sends an insert; closing the dialog with Cancel inserts none; an insert
\* is sent only by a click on Confirm Order in the open dialog, and a row
\* outside checkout is stored only as the answer to that insert.
C10_InsertOnlyOnConfirm ==
  [][/\ (selectedMaterial' # selectedMaterial \/ (~showOrderSummary /\ showOrderSummary')) =>
          /\ dbOrders' = dbOrders
          /\ confirmReq' = confirmReq
          /\ vProfile => showOrderSummary'
     /\ (showOrderSummary /\ ~showOrderSummary' /\ confirmReq.pc # "log") =>
          dbOrders' = dbOrders /\ confirmReq' = confirmReq
     /\ (confirmReq.pc # "insert" /\ confirmReq'.pc = "insert") =>
          showOrderSummary /\ showOrderSummary'
     /\ (dbOrders' # dbOrders /\ checkoutReq' = checkoutReq) =>
          /\ confirmReq.pc = "insert"
          /\ dbOrders' = Append(dbOrders, StoredOrder(confirmReq.row, Len(dbOrders) + 1))
    ]_vars

C10_Witness ==
  /\ lastRun = NoRun /\ checkoutReq = NoReq
  /\ Len(dbOrders) = 1
  /\ cToast = "Order placed!"
  /\ ~showOrderSummary

NoDuplicates(seq) == \A i, j \in DOMAIN seq : seq[i] = seq[j] => i = j

\* C11: a vendor is never a participant of the same group order twice: a join
\* by a user whose id is in the cached participants list is refused with
\* "Already joined" and writes nothing, a join request is sent only for a cached
\* order that does not list the user, and no stored participants array holds a
\* user id more than once.
C11_NoDoubleParticipant ==
  /\ [](\A i \in DOMAIN dbGroupOrders : NoDuplicates(dbGroupOrders[i].participants))
  /\ [][\A v \in Vendors :
          /\ (toast'[v] = "Already joined" /\ toast[v] # "Already joined") =>
               /\ \E g \in groupOrders[v] : SeqContains(g.participants, v)
               /\ join' = join
               /\ dbGroupOrders' = dbGroupOrders
               /\ dbParticipants' = dbParticipants
          /\ (join[v] = NoReq /\ join'[v] # NoReq) =>
               ~SeqContains(join'[v].groupOrder.participants, v)
      ]_vars

C11_Witness ==
  /\ toast["u1"] = "Already joined"
  /\ join["u1"] = NoReq
  /\ \E g \in groupOrders["u1"] : g.participants = <<"u3", "u1">>
  /\ Len(dbGroupOrders) = 1
  /\ dbGroupOrders[1].participants = <<"u3", "u1">>
  /\ Cardinality({i \in DOMAIN dbParticipants : dbParticipants[i].vendor_id = "u1"}) = 1

\* C12: with joins of quantity 1, total_quantity of every group order equals the
\* number of entries of its participants array, also after joins from stale
\* cached copies.
C12_TotalIsParticipantCount ==
  \A i \in DOMAIN dbGroupOrders :
    dbGroupOrders[i].total_quantity = Len(dbGroupOrders[i].participants)

C12_Witness ==
  /\ Len(dbGroupOrders) = 1
  /\ dbGroupOrders[1].total_quantity = 2
  /\ Len(dbParticipants) = 2
  /\ dbParticipants[1].vendor_id # dbParticipants[2].vendor_id
  /\ \A v \in Vendors : join[v] = NoReq

RECURSIVE SumQuantities(_, _)
SumQuantities(table, S) ==
  IF S = {} THEN 0
  ELSE LET i == CHOOSE x \in S : TRUE IN table[i].quantity + SumQuantities(table, S \ {i})

\* C13: when no join is in flight, each group order has exactly one
\* group_order_participants row per joined vendor, every vendor with a row is
\* in the order's participants array, and total_quantity is 1 plus the sum of
\* the rows' quantities.
C13_ParticipantsConsistent ==
  (\A v \in Vendors : join[v] = NoReq) =>
    \A g \in DOMAIN dbGroupOrders :
      LET rows == {i \in DOMAIN dbParticipants : dbParticipants[i].group_order_id = g} IN
      /\ \A i, j \in rows :
           dbParticipants[i].vendor_id = dbParticipants[j].vendor_id => i = j
      /\ \A i \in rows :
           SeqContains(dbGroupOrders[g].participants, dbParticipants[i].vendor_id)
      /\ dbGroupOrders[g].total_quantity = 1 + SumQuantities(dbParticipants, rows)

\* C14: joinGroupOrder modifies a group order only while it is active: at the
\* moment of the update the stored row has status 'open' and expires_at later
\* than the current time.
C14_JoinOnlyActive ==
  [][\A i \in DOMAIN dbGroupOrders :
       dbGroupOrders'[i] # dbGroupOrders[i] =>
         dbGroupOrders[i].status = "open" /\ dbGroupOrders[i].expires_at > now
    ]_vars

C16_FormBounds ==
  /\ \A v \in Vendors :
       createReq[v] # NoReq =>
         /\ createReq[v].row.min_quantity >= 10
         /\ createReq[v].row.current_price >= 0
         /\ createReq[v].row.expires_at - createReq[v].at \in 1..30
  /\ \A i \in DOMAIN dbGroupOrders :
       dbGroupOrders[i].min_quantity >= 10 /\ dbGroupOrders[i].current_price >= 0

\* C17: when createGroupOrder's insert fails the modal's open state is left as
\* it is, onSuccess is not invoked and the "Error" toast is shown; when it
\* succeeds onClose is invoked before onSuccess; the loading flag is true while
\* the request is in flight and false when the operation ends.
C17_CreateOutcome ==
  /\ [](\A v \in Vendors : createReq[v] # NoReq <=> modalLoading[v])
  /\ [][\A v \in Vendors :
          (createReq[v] # NoReq /\ createReq'[v] = NoReq) =>
            /\ ~modalLoading'[v]
            /\ IF dbGroupOrders' # dbGroupOrders
               THEN /\ calls'[v] = <<"onClose", "onSuccess">>
                    /\ toast'[v] = "Group order created!"
                    /\ ~isGroupOrderModalOpen'[v]
                    /\ fetchGO'[v] = now
               ELSE /\ calls'[v] = << >>
                    /\ toast'[v] = "Error"
                    /\ isGroupOrderModalOpen'[v] = isGroupOrderModalOpen[v]
                    /\ fetchGO'[v] = fetchGO[v]
      ]_vars

C17_Witness ==
  /\ toast["u3"] = "Error"
  /\ isGroupOrderModalOpen["u3"]
  /\ ~modalLoading["u3"]
  /\ createReq["u3"] = NoReq
  /\ dbGroupOrders = << >>

RECURSIVE CartQuantity(_)
CartQuantity(rows) ==
  IF rows = << >> THEN 0 ELSE Head(rows).quantity + CartQuantity(Tail(rows))

\* C18: the cart never holds two rows of one vendor and material, and every
\* addToCart call that reports success leaves exactly one row for the pair,
\* whose quantity is what the pair held before plus the added amount (so that
\* the row's quantity is the sum of all added amounts), whatever other calls
\* are in flight.
C18_OneRowPerMaterial ==
  /\ [](\A m \in DOMAIN dbMaterials : Len(CartRowsOf(vUser, m)) <= 1)
  /\ [][\A k \in DOMAIN addCalls :
          (addCalls[k].pc \in {"update", "insert"} /\ addCalls'[k].pc = "added") =>
            LET mine(c) == c.vendor_id = addCalls[k].uid /\
                           c.material_id = addCalls[k].material_id
                before == SelectSeq(dbCart, mine)
                after == SelectSeq(dbCart', mine)
            IN /\ Len(after) = 1
               /\ after[1].quantity = CartQuantity(before) + addCalls[k].quantity
      ]_vars

\* C19: every cart row, in cart_items and in the local list, has quantity >= 1,
\* and updateQuantity never sends an update with a quantity <= 0: it sends the
\* removal of the row instead.
C19_QuantitiesPositive ==
  /\ \A i \in DOMAIN dbCart : dbCart[i].quantity >= 1
  /\ \A i \in DOMAIN cartItems : cartItems[i].quantity >= 1
  /\ \A j \in DOMAIN qtyReq :
       /\ qtyReq[j].op = "update" => qtyReq[j].quantity >= 1
       /\ qtyReq[j].op = "remove" => qtyReq[j].quantity = 0

C19_Witness ==
  /\ \E j \in DOMAIN qtyReq :
       /\ qtyReq[j].op = "remove" /\ qtyReq[j].from = "updateQuantity"
       /\ \E i \in DOMAIN cartItems :
            cartItems[i].id = qtyReq[j].id /\ cartItems[i].quantity = 1
  /\ \E k \in DOMAIN addCalls : addCalls[k].pc = "added"

====
